---- MODULE Spec2Model ----
(***************************************************************************)
(* Model of the enrollment store of SOA-Taller: the three in-memory        *)
(* storages of memory_storage.py and the Flask handlers of                 *)
(* enrollments_service.py and courses_service.py that act on them.         *)
(*                                                                         *)
(* Spec      handlers run one after the other, each to completion.         *)
(* SpecConc  handlers run in threads of the (threaded) Flask server and    *)
(*           interleave between the reads and writes of the storages.      *)
(***************************************************************************)
EXTENDS Integers, Sequences, FiniteSets, TLC

VARIABLES students, courses, enrollments, clock, resp, prev, body, relisted, threads,
          courses_service

vars == <<students, courses, enrollments, clock, resp, prev, body, relisted, threads,
          courses_service>>

(***************************************************************************)
(* Bounds                                                                  *)
(***************************************************************************)
\* students created by the sample data (the source creates 4)
NumStudents == 3
\* seat capacities of the sample courses are drawn from 1..MaxSlots
\* (the source uses 25, 30, ...; create_course takes any capacity)
MaxSlots == 3
\* the clock stops after this many further readings of datetime.utcnow()
MaxClock == 8
\* the same, for the specifications with more operations than Spec
MaxListClock == 6
MaxLedgerClock == 7

(***************************************************************************)
(* Values                                                                  *)
(***************************************************************************)
\* Python's None, for a key that was not found and for a missing date
NoItem == 0
NoDate == -1

SampleIdentifications == <<"12345678", "87654321", "11223344", "55667788">>
SampleCourses == <<"IS101", "IS102">>
\* the sample enrollments whose course is one of SampleCourses
SampleEnrollments == <<[student_id |-> 1, course_code |-> "IS101"],
                       [student_id |-> 2, course_code |-> "IS102"]>>

\* course codes as they arrive in a request
RawCodes == {"IS101", "IS102", "is101", "Is102", "XX999"}

\* str.upper() on the codes of RawCodes
Upper(s) ==
    CASE s = "is101" -> "IS101"
      [] s = "Is102" -> "IS102"
      [] OTHER -> s

\* identifications as they arrive in a request, and str.strip on them
RawIdentifications == {"12345678", " 12345678 ", "99", " 99", "", " "}

Strip(s) ==
    CASE s = " 12345678 " -> "12345678"
      [] s = " 99" -> "99"
      [] s = " " -> ""
      [] OTHER -> s

\* the codes given to create_course
CreatedCodes == {"IS101", "is101", "XX999"}

Min(S) == CHOOSE x \in S : \A y \in S : x <= y

(***************************************************************************)
(* InMemoryStorage                                                         *)
(***************************************************************************)
EmptyStorage == [data |-> <<>>, next_id |-> 1]

\* create(): the item, with its id, is stored under next_id
Create(st, item) ==
    [data |-> (st.next_id :> item) @@ st.data, next_id |-> st.next_id + 1]

GetAll(st) == {st.data[k] : k \in DOMAIN st.data}

\* get_by_id(): the key of the item, NoItem for None
GetById(st, item_id) == IF item_id \in DOMAIN st.data THEN item_id ELSE NoItem

\* find_by_field(): the key of the first item, in insertion order, whose
\* field has the value; NoItem for None
FindByField(st, field, value) ==
    LET hits == {k \in DOMAIN st.data : st.data[k][field] = value}
    IN  IF hits = {} THEN NoItem ELSE Min(hits)

FindAllByField(st, field, value) ==
    {k \in DOMAIN st.data : st.data[k][field] = value}

(***************************************************************************)
(* StudentsStorage, CoursesStorage                                         *)
(***************************************************************************)
\* a creation without the look-up of the identification
CreateStudentUnchecked(st, identification) ==
    [raised |-> FALSE,
     storage |-> Create(st, [id |-> st.next_id,
                             identification |-> identification])]

CreateStudent(st, identification) ==
    IF FindByField(st, "identification", identification) # NoItem
    THEN [raised |-> TRUE, storage |-> st]
    ELSE [raised |-> FALSE,
          storage |-> Create(st, [id |-> st.next_id,
                                  identification |-> identification])]

CreateCourse(st, code, total_slots) ==
    IF FindByField(st, "code", code) # NoItem
    THEN [raised |-> TRUE, storage |-> st]
    ELSE [raised |-> FALSE,
          storage |-> Create(st, [id |-> st.next_id,
                                  code |-> code,
                                  total_slots |-> total_slots,
                                  available_slots |-> total_slots])]

GetByCode(st, code) == FindByField(st, "code", code)

UpdateAvailableSlotsUnbounded(st, course_code, change) ==
    LET k == GetByCode(st, course_code)
    IN  IF k # NoItem
        THEN [ok |-> TRUE,
              storage |-> [st EXCEPT !.data[k].available_slots = @ + change]]
        ELSE [ok |-> FALSE, storage |-> st]

\* the range check with the capacity itself excluded
UpdateAvailableSlotsStrict(st, course_code, change) ==
    LET k == GetByCode(st, course_code)
    IN  IF k # NoItem
        THEN LET new_slots == st.data[k].available_slots + change
             IN  IF 0 <= new_slots /\ new_slots < st.data[k].total_slots
                 THEN [ok |-> TRUE,
                       storage |-> [st EXCEPT !.data[k].available_slots = new_slots]]
                 ELSE [ok |-> FALSE, storage |-> st]
        ELSE [ok |-> FALSE, storage |-> st]

\* the write made before the range check
UpdateAvailableSlotsWriteFirst(st, course_code, change) ==
    LET k == GetByCode(st, course_code)
    IN  IF k # NoItem
        THEN LET new_slots == st.data[k].available_slots + change
             IN  [ok |-> 0 <= new_slots /\ new_slots <= st.data[k].total_slots,
                  storage |-> [st EXCEPT !.data[k].available_slots = new_slots]]
        ELSE [ok |-> FALSE, storage |-> st]

\* an adjustment applied to the counter of every course that has room for it
UpdateAvailableSlotsEveryCourse(st, course_code, change) ==
    LET k == GetByCode(st, course_code)
        adjusted(c) == st.data[c].available_slots + change
    IN  IF k # NoItem /\ 0 <= adjusted(k) /\ adjusted(k) <= st.data[k].total_slots
        THEN [ok |-> TRUE,
              storage |-> [st EXCEPT !.data =
                  [c \in DOMAIN st.data |->
                      IF 0 <= adjusted(c) /\ adjusted(c) <= st.data[c].total_slots
                      THEN [st.data[c] EXCEPT !.available_slots = adjusted(c)]
                      ELSE st.data[c]]]]
        ELSE [ok |-> FALSE, storage |-> st]

UpdateAvailableSlots(st, course_code, change) ==
    LET k == GetByCode(st, course_code)
    IN  IF k # NoItem
        THEN LET new_slots == st.data[k].available_slots + change
             IN  IF 0 <= new_slots /\ new_slots <= st.data[k].total_slots
                 THEN [ok |-> TRUE,
                       storage |-> [st EXCEPT !.data[k].available_slots = new_slots]]
                 ELSE [ok |-> FALSE, storage |-> st]
        ELSE [ok |-> FALSE, storage |-> st]

(***************************************************************************)
(* EnrollmentsStorage                                                      *)
(***************************************************************************)
\* a duplicate check that does not look at the status
FindAnyEnrollment(st, student_id, course_code) ==
    LET hits == {k \in DOMAIN st.data :
                    /\ st.data[k].student_id = student_id
                    /\ st.data[k].course_code = course_code}
    IN  IF hits = {} THEN NoItem ELSE Min(hits)

\* find_active_enrollment(): the key of the first ACTIVE enrollment of the
\* pair, NoItem for None
FindActiveEnrollment(st, student_id, course_code) ==
    LET hits == {k \in DOMAIN st.data :
                    /\ st.data[k].student_id = student_id
                    /\ st.data[k].course_code = course_code
                    /\ st.data[k].status = "ACTIVE"}
    IN  IF hits = {} THEN NoItem ELSE Min(hits)

\* the record of create_enrollment and create; student and course are the
\* keys 'student' and 'course', which a new record does not have (NoItem)
NewEnrollment(item_id, student_id, course_code, now) ==
    [id |-> item_id,
     student_id |-> student_id,
     course_code |-> course_code,
     status |-> "ACTIVE",
     enrollment_date |-> now,
     cancellation_date |-> NoDate,
     created_at |-> now + 1,
     student |-> NoItem,
     course |-> NoItem]

CreateEnrollmentUnchecked(st, student_id, course_code, now) ==
    [raised |-> FALSE,
     id |-> st.next_id,
     storage |-> Create(st, NewEnrollment(st.next_id, student_id, course_code, now))]

\* re-enrollment that puts a cancelled record of the pair back to ACTIVE
\* instead of creating a new record
CreateEnrollmentReviving(st, student_id, course_code, now) ==
    LET cancelled == {k \in DOMAIN st.data :
                         /\ st.data[k].student_id = student_id
                         /\ st.data[k].course_code = course_code
                         /\ st.data[k].status = "CANCELLED"}
    IN  IF FindActiveEnrollment(st, student_id, course_code) # NoItem
        THEN [raised |-> TRUE, id |-> NoItem, storage |-> st]
        ELSE IF cancelled # {}
        THEN [raised |-> FALSE,
              id |-> Min(cancelled),
              storage |-> [st EXCEPT !.data[Min(cancelled)].status = "ACTIVE",
                                     !.data[Min(cancelled)].cancellation_date = NoDate]]
        ELSE [raised |-> FALSE,
              id |-> st.next_id,
              storage |-> Create(st, NewEnrollment(st.next_id, student_id,
                                                   course_code, now))]

\* create_enrollment(): utcnow() is read twice, for enrollment_date and for
\* created_at; each reading is later than the one before
CreateEnrollment(st, student_id, course_code, now) ==
    IF FindActiveEnrollment(st, student_id, course_code) # NoItem
    THEN [raised |-> TRUE, id |-> NoItem, storage |-> st]
    ELSE [raised |-> FALSE,
          id |-> st.next_id,
          storage |-> Create(st, NewEnrollment(st.next_id, student_id, course_code, now))]

\* a cancellation that sets the status and leaves the date unset
StorageCancelEnrollmentUndated(st, enrollment_id, now) ==
    LET k == GetById(st, enrollment_id)
    IN  IF k # NoItem /\ st.data[k].status = "ACTIVE"
        THEN [ok |-> TRUE, storage |-> [st EXCEPT !.data[k].status = "CANCELLED"]]
        ELSE [ok |-> FALSE, storage |-> st]

\* EnrollmentsStorage.cancel_enrollment()
StorageCancelEnrollment(st, enrollment_id, now) ==
    LET k == GetById(st, enrollment_id)
    IN  IF k # NoItem /\ st.data[k].status = "ACTIVE"
        THEN [ok |-> TRUE,
              storage |-> [st EXCEPT !.data[k].status = "CANCELLED",
                                     !.data[k].cancellation_date = now]]
        ELSE [ok |-> FALSE, storage |-> st]

(***************************************************************************)
(* recalculate_course_slots                                                *)
(***************************************************************************)
\* enrollment_counts.get(course_code, 0)
EnrollmentCount(es, course_code) ==
    Cardinality({k \in DOMAIN es.data :
                    /\ es.data[k].status = "ACTIVE"
                    /\ es.data[k].course_code = course_code})

Max0(n) == IF n < 0 THEN 0 ELSE n

\* a reconciliation that gives every course its whole capacity back
RecalculateToCapacity(cs, es) ==
    [cs EXCEPT !.data =
        [k \in DOMAIN cs.data |->
            [cs.data[k] EXCEPT !.available_slots = cs.data[k].total_slots]]]

\* a reconciliation without the clamp at zero
RecalculateUnclamped(cs, es) ==
    [cs EXCEPT !.data =
        [k \in DOMAIN cs.data |->
            [cs.data[k] EXCEPT !.available_slots =
                cs.data[k].total_slots - EnrollmentCount(es, cs.data[k].code)]]]

\* a reconciliation that takes the count off the current counter
RecalculateFromAvailable(cs, es) ==
    [cs EXCEPT !.data =
        [k \in DOMAIN cs.data |->
            [cs.data[k] EXCEPT !.available_slots =
                Max0(cs.data[k].available_slots - EnrollmentCount(es, cs.data[k].code))]]]

RecalculateCourseSlots(cs, es) ==
    [cs EXCEPT !.data =
        [k \in DOMAIN cs.data |->
            [cs.data[k] EXCEPT !.available_slots =
                Max0(cs.data[k].total_slots - EnrollmentCount(es, cs.data[k].code))]]]

(***************************************************************************)
(* initialize_sample_data                                                  *)
(***************************************************************************)
RECURSIVE SampleStudents(_)
SampleStudents(n) ==
    IF n = 0 THEN EmptyStorage
    ELSE CreateStudent(SampleStudents(n - 1), SampleIdentifications[n]).storage

RECURSIVE SampleCourseStorage(_, _)
SampleCourseStorage(totals, n) ==
    IF n = 0 THEN EmptyStorage
    ELSE CreateCourse(SampleCourseStorage(totals, n - 1),
                      SampleCourses[n], totals[SampleCourses[n]]).storage

\* create_enrollment(...) then update_available_slots(..., -1), per sample
\* enrollment; the state is [courses, enrollments, clock]
RECURSIVE SampleEnrolled(_, _)
SampleEnrolled(totals, n) ==
    IF n = 0
    THEN [courses |-> SampleCourseStorage(totals, Len(SampleCourses)),
          enrollments |-> EmptyStorage,
          clock |-> 0]
    ELSE LET s == SampleEnrolled(totals, n - 1)
             e == SampleEnrollments[n]
             c == CreateEnrollment(s.enrollments, e.student_id, e.course_code, s.clock)
         IN  [courses |-> UpdateAvailableSlots(s.courses, e.course_code, -1).storage,
              enrollments |-> c.storage,
              clock |-> s.clock + 2]

InitializeSampleData(totals) ==
    LET s == SampleEnrolled(totals, Len(SampleEnrollments))
    IN  [s EXCEPT !.courses = RecalculateCourseSlots(s.courses, s.enrollments)]

(***************************************************************************)
(* Handlers of enrollments_service.py and courses_service.py, as functions *)
(* of the storages: the storages after the call and the response           *)
(***************************************************************************)
Response(op, student_id, course_code, enrollment_id, status, error) ==
    [op |-> op, student_id |-> student_id, course_code |-> course_code,
     enrollment_id |-> enrollment_id, status |-> status, error |-> error]

VerifyStudentExists(ss, student_id) == GetById(ss, student_id) # NoItem

\* the course taken as existing without a look-up
VerifyCourseExistsSkipped(cs, course_code) == TRUE

VerifyCourseExists(cs, course_code) == GetByCode(cs, course_code) # NoItem

\* a reservation whose refusal is not reported
ReserveCourseSlotUnchecked(cs, course_code) ==
    [ok |-> TRUE, storage |-> UpdateAvailableSlots(cs, course_code, -1).storage]

ReserveCourseSlot(cs, course_code) == UpdateAvailableSlots(cs, course_code, -1)

\* a release that is not carried out
ReleaseCourseSlotDropped(cs, course_code) == [ok |-> FALSE, storage |-> cs]

ReleaseCourseSlot(cs, course_code) == UpdateAvailableSlots(cs, course_code, 1)

\* POST /enrollments
EnrollInCourse(ss, cs, es, now, student_id, raw_code) ==
    LET course_code == Upper(raw_code)
        unchanged(status, error) ==
            [courses |-> cs, enrollments |-> es, clock |-> now,
             resp |-> Response("enroll", student_id, course_code, NoItem,
                               status, error)]
    IN  IF ~VerifyStudentExists(ss, student_id)
        THEN unchanged(404, "StudentNotFound")
        ELSE IF ~VerifyCourseExists(cs, course_code)
        THEN unchanged(404, "CourseNotFound")
        ELSE LET reserved == ReserveCourseSlot(cs, course_code)
             IN  IF ~reserved.ok
                 THEN unchanged(409, "NoSeatsAvailable")
                 ELSE LET created == CreateEnrollment(es, student_id, course_code, now)
                      IN  IF created.raised
                          THEN [courses |-> ReleaseCourseSlot(reserved.storage,
                                                              course_code).storage,
                                enrollments |-> es,
                                clock |-> now,
                                resp |-> Response("enroll", student_id, course_code,
                                                  NoItem, 409, "DuplicateEnrollment")]
                          ELSE [courses |-> reserved.storage,
                                enrollments |-> created.storage,
                                clock |-> now + 2,
                                resp |-> Response("enroll", student_id, course_code,
                                                  created.id, 201, "none")]

\* cancel_enrollment without the check for an enrollment already CANCELLED
CancelEnrollmentUnguarded(cs, es, now, enrollment_id) ==
    LET k == GetById(es, enrollment_id)
    IN  IF k = NoItem
        THEN [courses |-> cs, enrollments |-> es, clock |-> now,
              resp |-> Response("cancel", NoItem, "", enrollment_id, 404, "NotFound")]
        ELSE LET released == UpdateAvailableSlots(cs, es.data[k].course_code, 1)
                 cancelled == StorageCancelEnrollment(es, enrollment_id, now)
             IN  [courses |-> released.storage,
                  enrollments |-> cancelled.storage,
                  clock |-> IF cancelled.ok THEN now + 1 ELSE now,
                  resp |-> Response("cancel", es.data[k].student_id,
                                    es.data[k].course_code, enrollment_id,
                                    IF cancelled.ok THEN 200 ELSE 500,
                                    IF cancelled.ok THEN "none" ELSE "InternalError")]

\* cancel_enrollment without the release of the seat
CancelEnrollmentKeepingSeat(cs, es, now, enrollment_id) ==
    LET k == GetById(es, enrollment_id)
        cancelled == StorageCancelEnrollment(es, enrollment_id, now)
    IN  IF k = NoItem
        THEN [courses |-> cs, enrollments |-> es, clock |-> now,
              resp |-> Response("cancel", NoItem, "", enrollment_id, 404, "NotFound")]
        ELSE IF es.data[k].status = "CANCELLED"
        THEN [courses |-> cs, enrollments |-> es, clock |-> now,
              resp |-> Response("cancel", NoItem, "", enrollment_id,
                                409, "AlreadyCancelled")]
        ELSE [courses |-> cs,
              enrollments |-> cancelled.storage,
              clock |-> now + 1,
              resp |-> Response("cancel", es.data[k].student_id,
                                es.data[k].course_code, enrollment_id,
                                200, "none")]

\* PUT /enrollments/<id>/cancel
CancelEnrollment(cs, es, now, enrollment_id) ==
    LET k == GetById(es, enrollment_id)
        unchanged(status, error) ==
            [courses |-> cs, enrollments |-> es, clock |-> now,
             resp |-> Response("cancel", NoItem, "", enrollment_id, status, error)]
    IN  IF k = NoItem
        THEN unchanged(404, "NotFound")
        ELSE IF es.data[k].status = "CANCELLED"
        THEN unchanged(409, "AlreadyCancelled")
        ELSE LET released == ReleaseCourseSlot(cs, es.data[k].course_code)
                 cancelled == StorageCancelEnrollment(es, enrollment_id, now)
             IN  IF cancelled.ok
                 THEN [courses |-> released.storage,
                       enrollments |-> cancelled.storage,
                       clock |-> now + 1,
                       resp |-> Response("cancel", es.data[k].student_id,
                                         es.data[k].course_code, enrollment_id,
                                         200, "none")]
                 ELSE [courses |-> released.storage,
                       enrollments |-> es,
                       clock |-> now,
                       resp |-> Response("cancel", es.data[k].student_id,
                                         es.data[k].course_code, enrollment_id,
                                         500, "InternalError")]

\* GET /courses: recalculate_course_slots(), then the listing
ListCourses(cs, es, now) ==
    [courses |-> RecalculateCourseSlots(cs, es),
     enrollments |-> es,
     clock |-> now,
     resp |-> Response("list_courses", NoItem, "", NoItem, 200, "none")]

\* PUT /courses/<course_code>/reserve-slot
ReserveSlot(cs, es, now, raw_code) ==
    LET course_code == Upper(raw_code)
        updated == UpdateAvailableSlots(cs, course_code, -1)
    IN  [courses |-> updated.storage, enrollments |-> es, clock |-> now,
         resp |-> IF updated.ok
                  THEN Response("reserve_slot", NoItem, course_code, NoItem,
                                200, "none")
                  ELSE Response("reserve_slot", NoItem, course_code, NoItem,
                                409, "NoSeatsOrCourseNotFound")]

\* PUT /courses/<course_code>/release-slot
ReleaseSlot(cs, es, now, raw_code) ==
    LET course_code == Upper(raw_code)
        updated == UpdateAvailableSlots(cs, course_code, 1)
    IN  [courses |-> updated.storage, enrollments |-> es, clock |-> now,
         resp |-> IF updated.ok
                  THEN Response("release_slot", NoItem, course_code, NoItem,
                                200, "none")
                  ELSE Response("release_slot", NoItem, course_code, NoItem,
                                409, "NoReleaseOrCourseNotFound")]

\* POST /students: name and program are given; `not data[field]` refuses the
\* empty identification before strip() is applied
RegisterStudent(ss, cs, es, now, raw_identification) ==
    IF raw_identification = ""
    THEN [students |-> ss, courses |-> cs, enrollments |-> es, clock |-> now,
          resp |-> Response("register_student", NoItem, "", NoItem,
                            400, "MissingField"),
          body |-> <<[raw |-> raw_identification, identification |-> ""]>>]
    ELSE LET identification == Strip(raw_identification)
             created == CreateStudent(ss, identification)
         IN  [students |-> created.storage, courses |-> cs, enrollments |-> es,
              clock |-> now,
              resp |-> IF created.raised
                       THEN Response("register_student", NoItem, "", NoItem,
                                     409, "ValueError")
                       ELSE Response("register_student", ss.next_id, "", NoItem,
                                     201, "none"),
              body |-> <<[raw |-> raw_identification,
                          identification |-> identification]>>]

\* a call of courses_storage.create_course(code, ..., total_slots); no HTTP
\* handler wraps it, so the response has no status
CallCreateCourse(cs, es, now, code, total_slots) ==
    LET created == CreateCourse(cs, code, total_slots)
    IN  [courses |-> created.storage, enrollments |-> es, clock |-> now,
         resp |-> IF created.raised
                  THEN Response("create_course", NoItem, code, NoItem,
                                NoItem, "ValueError")
                  ELSE Response("create_course", NoItem, code, NoItem,
                                NoItem, "none"),
         body |-> <<[code |-> code, total_slots |-> total_slots]>>]

\* the keys of a dict in the order of its iteration: the order of insertion,
\* which is the order of the ids
RECURSIVE SortedSeq(_)
SortedSeq(S) == IF S = {} THEN <<>> ELSE <<Min(S)>> \o SortedSeq(S \ {Min(S)})

\* enrollment['course'] = course_data and enrollment['student'] = student_data
\* on the listed records: find_all_by_field and get_all return the stored
\* dicts themselves, so the keys are set on the stored records, and what is
\* stored is a reference to the student's or the course's dict (its key)
Enriched(ss, cs, es, listed, with_student, with_course) ==
    [es EXCEPT !.data =
        [k \in DOMAIN es.data |->
            IF k \notin listed THEN es.data[k]
            ELSE LET student_data == GetById(ss, es.data[k].student_id)
                     course_data == GetByCode(cs, es.data[k].course_code)
                 IN  [es.data[k] EXCEPT
                        !.student = IF with_student /\ student_data # NoItem
                                    THEN student_data ELSE @,
                        !.course = IF with_course /\ course_data # NoItem
                                   THEN course_data ELSE @]]]

\* jsonify of one record: the referenced dicts are written out as they are
\* at the time of the response
Serialized(ss, cs, enrollment) ==
    [enrollment EXCEPT
        !.student = IF @ = NoItem THEN <<>> ELSE <<ss.data[@]>>,
        !.course = IF @ = NoItem THEN <<>> ELSE <<cs.data[@]>>]

\* the rows of a listing: the listed records, in the order of the dict
Rows(ss, cs, es, listed) ==
    [i \in 1..Cardinality(listed) |->
        Serialized(ss, cs, es.data[SortedSeq(listed)[i]])]

\* GET /enrollments/<student_id>
GetStudentEnrollments(ss, cs, es, now, student_id) ==
    IF ~VerifyStudentExists(ss, student_id)
    THEN [courses |-> cs, enrollments |-> es, clock |-> now,
          resp |-> Response("student_enrollments", student_id, "", NoItem,
                            404, "StudentNotFound")]
    ELSE LET listed == FindAllByField(es, "student_id", student_id)
             joined == Enriched(ss, cs, es, listed, FALSE, TRUE)
         IN  [courses |-> cs, enrollments |-> joined, clock |-> now,
              resp |-> Response("student_enrollments", student_id, "", NoItem,
                                200, "none"),
              body |-> Rows(ss, cs, joined, listed)]

\* GET /enrollments
ListAllEnrollments(ss, cs, es, now) ==
    LET listed == DOMAIN es.data
        joined == Enriched(ss, cs, es, listed, TRUE, TRUE)
    IN  [courses |-> cs, enrollments |-> joined, clock |-> now,
         resp |-> Response("all_enrollments", NoItem, "", NoItem, 200, "none"),
         body |-> Rows(ss, cs, joined, listed)]

\* GET /enrollments/course/<course_code>
GetCourseEnrollments(ss, cs, es, now, raw_code) ==
    LET course_code == Upper(raw_code)
    IN  IF ~VerifyCourseExists(cs, course_code)
        THEN [courses |-> cs, enrollments |-> es, clock |-> now,
              resp |-> Response("course_enrollments", NoItem, course_code, NoItem,
                                404, "CourseNotFound")]
        ELSE LET listed == FindAllByField(es, "course_code", course_code)
                 joined == Enriched(ss, cs, es, listed, TRUE, FALSE)
             IN  [courses |-> cs, enrollments |-> joined, clock |-> now,
                  resp |-> Response("course_enrollments", NoItem, course_code,
                                    NoItem, 200, "none"),
                  body |-> Rows(ss, cs, joined, listed)]

\* existing_enrollments counting every record, whatever its status
ExistingEnrollmentsAnyStatus(es) ==
    {<<es.data[k].student_id, es.data[k].course_code>> : k \in DOMAIN es.data}

\* existing_enrollments: the (student_id, course_code) of the ACTIVE records
ExistingEnrollments(es) ==
    {<<es.data[k].student_id, es.data[k].course_code>> :
        k \in {j \in DOMAIN es.data : es.data[j].status = "ACTIVE"}}

\* for student in all_students: for course in all_courses: ... append
RECURSIVE AvailableCombinations(_, _, _, _)
AvailableCombinations(cs, existing, student_ids, course_ids) ==
    IF student_ids = <<>> THEN <<>>
    ELSE LET of_student ==
                 [i \in 1..Len(course_ids) |->
                     [student_id |-> Head(student_ids),
                      course_code |-> cs.data[course_ids[i]].code,
                      available_slots |-> cs.data[course_ids[i]].available_slots]]
             Available(row) ==
                 /\ <<row.student_id, row.course_code>> \notin existing
                 /\ row.available_slots > 0
         IN  SelectSeq(of_student, Available)
                 \o AvailableCombinations(cs, existing, Tail(student_ids),
                                          course_ids)

\* GET /enrollments/available-combinations
GetAvailableCombinations(ss, cs, es, now) ==
    [courses |-> cs, enrollments |-> es, clock |-> now,
     resp |-> Response("available_combinations", NoItem, "", NoItem, 200, "none"),
     body |-> AvailableCombinations(cs, ExistingEnrollments(es),
                                    SortedSeq(DOMAIN ss.data),
                                    SortedSeq(DOMAIN cs.data))]

(***************************************************************************)
(* Threads of the Flask server (used by SpecConc only)                     *)
(***************************************************************************)
Threads == {"t1", "t2"}

IdleThread ==
    [pc |-> "idle", op |-> "none", student_id |-> NoItem, course_code |-> "",
     new_slots |-> 0, item_id |-> NoItem, next_tmp |-> 0, now |-> 0,
     enrollment_counts |-> <<>>, course |-> NoItem, enrollment_id |-> NoItem,
     status |-> 0, error |-> "none"]

(***************************************************************************)
(* Spec: the handlers, one call at a time                                  *)
(***************************************************************************)
\* student ids and enrollment ids of requests: the known ones and one more
StudentInputs == 1..(NumStudents + 1)
EnrollmentInputs == 1..enrollments.next_id

Init ==
    \E totals \in [{SampleCourses[i] : i \in 1..Len(SampleCourses)} -> 1..MaxSlots] :
        LET s == InitializeSampleData(totals)
        IN  /\ students = SampleStudents(NumStudents)
            /\ courses = s.courses
            /\ enrollments = s.enrollments
            /\ clock = s.clock
            /\ resp = Response("none", NoItem, "", NoItem, 0, "none")
            /\ prev = s.courses
            /\ body = <<>>
            /\ relisted = FALSE
            /\ threads = [t \in Threads |-> IdleThread]
            /\ courses_service = [courses |-> s.courses,
                                  enrollments |-> s.enrollments]

\* the storages and the response after a call, with the rows of the
\* response's list in body; prev keeps the courses as they were before the
\* call, and relisted tells that this call and the one before it were both
\* course listings
Returns(r) ==
    /\ courses' = r.courses
    /\ enrollments' = r.enrollments
    /\ clock' = r.clock
    /\ resp' = r.resp
    /\ prev' = courses
    /\ body' = IF "body" \in DOMAIN r THEN r.body ELSE <<>>
    /\ relisted' = (resp.op = "list_courses" /\ r.resp.op = "list_courses")
    /\ students' = IF "students" \in DOMAIN r THEN r.students ELSE students
    /\ UNCHANGED <<threads, courses_service>>

Enroll ==
    /\ clock < MaxClock
    /\ \E student_id \in StudentInputs, raw_code \in RawCodes :
          Returns(EnrollInCourse(students, courses, enrollments, clock,
                                 student_id, raw_code))

Cancel ==
    /\ clock < MaxClock
    /\ \E enrollment_id \in EnrollmentInputs :
          Returns(CancelEnrollment(courses, enrollments, clock, enrollment_id))

Recalculate ==
    /\ clock < MaxClock
    /\ Returns(ListCourses(courses, enrollments, clock))

Next == Enroll \/ Cancel \/ Recalculate

Spec == Init /\ [][Next]_vars

\* the calls of Spec, for SpecList
EnrollCall == clock < MaxListClock /\ Enroll

CancelCall == clock < MaxListClock /\ Cancel

RecalculateCall == clock < MaxListClock /\ Recalculate

(***************************************************************************)
(* SpecDeployed: the services as start_services.py launches them, each a   *)
(* process of its own that imports memory_storage and so holds its own     *)
(* storages, filled by the same initialize_sample_data. students, courses  *)
(* and enrollments are the storages of the Enrollments service's process,  *)
(* courses_service those of the Courses service's process.                 *)
(***************************************************************************)
\* GET /courses of the Courses service's process: recalculate_course_slots
\* and get_all on the storages of that process; body is the listing
CoursesServiceList ==
    /\ clock < MaxListClock
    /\ LET r == ListCourses(courses_service.courses, courses_service.enrollments,
                            clock)
       IN  /\ courses_service' = [courses_service EXCEPT !.courses = r.courses]
           /\ resp' = r.resp
           /\ body' = [i \in 1..Cardinality(DOMAIN r.courses.data) |->
                          r.courses.data[SortedSeq(DOMAIN r.courses.data)[i]]]
           /\ relisted' = (resp.op = "list_courses")
           /\ UNCHANGED <<students, courses, enrollments, clock, prev, threads>>

NextDeployed == EnrollCall \/ CancelCall \/ CoursesServiceList

SpecDeployed == Init /\ [][NextDeployed]_vars

(***************************************************************************)
(* SpecList: Spec with the listings of enrollments_service.py              *)
(***************************************************************************)
StudentEnrollments ==
    /\ clock < MaxListClock
    /\ \E student_id \in StudentInputs :
          Returns(GetStudentEnrollments(students, courses, enrollments, clock,
                                        student_id))

AllEnrollments ==
    /\ clock < MaxListClock
    /\ Returns(ListAllEnrollments(students, courses, enrollments, clock))

CourseEnrollments ==
    /\ clock < MaxListClock
    /\ \E raw_code \in RawCodes :
          Returns(GetCourseEnrollments(students, courses, enrollments, clock,
                                       raw_code))

Combinations ==
    /\ clock < MaxListClock
    /\ Returns(GetAvailableCombinations(students, courses, enrollments, clock))

NextList ==
    \/ EnrollCall \/ CancelCall \/ RecalculateCall
    \/ StudentEnrollments \/ AllEnrollments \/ CourseEnrollments
    \/ Combinations

SpecList == Init /\ [][NextList]_vars

(***************************************************************************)
(* SpecLedger: Spec with the seat endpoints of courses_service.py          *)
(***************************************************************************)
LedgerEnroll == clock < MaxLedgerClock /\ Enroll

LedgerCancel == clock < MaxLedgerClock /\ Cancel

LedgerRecalculate == clock < MaxLedgerClock /\ Recalculate

Reserve ==
    /\ clock < MaxLedgerClock
    /\ \E raw_code \in RawCodes :
          Returns(ReserveSlot(courses, enrollments, clock, raw_code))

Release ==
    /\ clock < MaxLedgerClock
    /\ \E raw_code \in RawCodes :
          Returns(ReleaseSlot(courses, enrollments, clock, raw_code))

NextLedger ==
    LedgerEnroll \/ LedgerCancel \/ LedgerRecalculate \/ Reserve \/ Release

SpecLedger == Init /\ [][NextLedger]_vars

(***************************************************************************)
(* SpecDir: the creations of students and courses                          *)
(***************************************************************************)
Register ==
    /\ clock < MaxClock
    /\ \E raw_identification \in RawIdentifications :
          Returns(RegisterStudent(students, courses, enrollments, clock,
                                  raw_identification))

NewCourse ==
    /\ clock < MaxClock
    /\ \E code \in CreatedCodes, total_slots \in 1..MaxSlots :
          Returns(CallCreateCourse(courses, enrollments, clock, code,
                                   total_slots))

NextDir == Register \/ NewCourse

SpecDir == Init /\ [][NextDir]_vars

(***************************************************************************)
(* SpecConc: each thread serves one request; a step is one read or one     *)
(* write of a storage, and the threads' steps interleave                   *)
(***************************************************************************)
Goto(t, pc) == threads' = [threads EXCEPT ![t].pc = pc]

Done(t, status, error) ==
    threads' = [threads EXCEPT ![t].pc = "done", ![t].status = status,
                               ![t].error = error]

\* enroll_in_course: request.get_json(), course_code.upper()
BeginEnroll(t) ==
    /\ threads[t].pc = "idle"
    /\ clock < MaxClock
    /\ \E student_id \in StudentInputs, raw_code \in RawCodes :
          threads' = [threads EXCEPT ![t].pc = "verify", ![t].op = "enroll",
                                     ![t].student_id = student_id,
                                     ![t].course_code = Upper(raw_code)]
    /\ UNCHANGED <<students, courses, enrollments, clock, resp, prev, body, relisted,
                 courses_service>>

\* verify_student_exists, verify_course_exists
EnrollVerify(t) ==
    /\ threads[t].pc = "verify"
    /\ IF ~VerifyStudentExists(students, threads[t].student_id)
       THEN Done(t, 404, "StudentNotFound")
       ELSE IF ~VerifyCourseExists(courses, threads[t].course_code)
       THEN Done(t, 404, "CourseNotFound")
       ELSE Goto(t, "reserve_read")
    /\ UNCHANGED <<students, courses, enrollments, clock, resp, prev, body, relisted,
                 courses_service>>

\* update_available_slots: new_slots = course['available_slots'] + change
SlotsRead(t, from, change, to) ==
    /\ threads[t].pc = from
    /\ LET k == GetByCode(courses, threads[t].course_code)
       IN  threads' = [threads EXCEPT ![t].pc = to,
                          ![t].new_slots = courses.data[k].available_slots + change]
    /\ UNCHANGED <<students, courses, enrollments, clock, resp, prev, body, relisted,
                 courses_service>>

\* update_available_slots: 0 <= new_slots <= course['total_slots']
SlotsInRange(t) ==
    LET k == GetByCode(courses, threads[t].course_code)
    IN  0 <= threads[t].new_slots /\ threads[t].new_slots <= courses.data[k].total_slots

\* update_available_slots: course['available_slots'] = new_slots
SlotsWritten(t) ==
    LET k == GetByCode(courses, threads[t].course_code)
    IN  [courses EXCEPT !.data[k].available_slots = threads[t].new_slots]

ReserveRead(t) == SlotsRead(t, "reserve_read", -1, "reserve_write")

\* the range check passes: the write
ReserveWrite(t) ==
    /\ threads[t].pc = "reserve_write"
    /\ SlotsInRange(t)
    /\ courses' = SlotsWritten(t)
    /\ Goto(t, "find_active")
    /\ UNCHANGED <<students, enrollments, clock, resp, prev, body, relisted,
                 courses_service>>

\* the range check fails: reserve_course_slot returns False, 409
ReserveRefused(t) ==
    /\ threads[t].pc = "reserve_write"
    /\ ~SlotsInRange(t)
    /\ Done(t, 409, "NoSeatsAvailable")
    /\ UNCHANGED <<students, courses, enrollments, clock, resp, prev, body, relisted,
                 courses_service>>

\* create_enrollment: find_active_enrollment, then the ValueError or the
\* enrollment_data with its enrollment_date
FindActive(t) ==
    /\ threads[t].pc = "find_active"
    /\ IF FindActiveEnrollment(enrollments, threads[t].student_id,
                               threads[t].course_code) # NoItem
       THEN Goto(t, "release_read") /\ UNCHANGED clock
       ELSE /\ threads' = [threads EXCEPT ![t].pc = "create_id", ![t].now = clock]
            /\ clock' = clock + 2
    /\ UNCHANGED <<students, courses, enrollments, resp, prev, body, relisted,
                 courses_service>>

\* create: item_data['id'] = self.next_id
CreateId(t) ==
    /\ threads[t].pc = "create_id"
    /\ threads' = [threads EXCEPT ![t].pc = "create_store",
                                  ![t].item_id = enrollments.next_id]
    /\ UNCHANGED <<students, courses, enrollments, clock, resp, prev, body, relisted,
                 courses_service>>

\* create: self.data[self.next_id] = item_data.copy()
CreateStore(t) ==
    /\ threads[t].pc = "create_store"
    /\ enrollments' =
          [enrollments EXCEPT !.data =
              (enrollments.next_id :>
                  NewEnrollment(threads[t].item_id, threads[t].student_id,
                                threads[t].course_code, threads[t].now))
              @@ enrollments.data]
    /\ Goto(t, "next_id_read")
    /\ UNCHANGED <<students, courses, clock, resp, prev, body, relisted,
                 courses_service>>

\* create: self.next_id += 1, the read
NextIdRead(t) ==
    /\ threads[t].pc = "next_id_read"
    /\ threads' = [threads EXCEPT ![t].pc = "next_id_write",
                                  ![t].next_tmp = enrollments.next_id]
    /\ UNCHANGED <<students, courses, enrollments, clock, resp, prev, body, relisted,
                 courses_service>>

\* create: self.next_id += 1, the write; then 201
NextIdWrite(t) ==
    /\ threads[t].pc = "next_id_write"
    /\ enrollments' = [enrollments EXCEPT !.next_id = threads[t].next_tmp + 1]
    /\ Done(t, 201, "none")
    /\ UNCHANGED <<students, courses, clock, resp, prev, body, relisted,
                 courses_service>>

\* except ValueError: release_course_slot, whose result is not read; then 409
ReleaseRead(t) == SlotsRead(t, "release_read", 1, "release_write")

\* the range check, the write when it passes, and 409 either way
ReleaseWrite(t) ==
    /\ threads[t].pc = "release_write"
    /\ courses' = IF SlotsInRange(t) THEN SlotsWritten(t) ELSE courses
    /\ Done(t, 409, "DuplicateEnrollment")
    /\ UNCHANGED <<students, enrollments, clock, resp, prev, body, relisted,
                 courses_service>>

NextConc ==
    \E t \in Threads :
        \/ BeginEnroll(t)
        \/ EnrollVerify(t)
        \/ ReserveRead(t)
        \/ ReserveWrite(t)
        \/ ReserveRefused(t)
        \/ FindActive(t)
        \/ CreateId(t)
        \/ CreateStore(t)
        \/ NextIdRead(t)
        \/ NextIdWrite(t)
        \/ ReleaseRead(t)
        \/ ReleaseWrite(t)

SpecConc == Init /\ [][NextConc]_vars

(***************************************************************************)
(* SpecCalls: each thread serves an enroll or a cancel request; a step is  *)
(* one whole call of a storage method, so the seat adjustments and the     *)
(* record writes are each atomic and only the handlers' calls interleave   *)
(***************************************************************************)
\* reserve_course_slot(course_code), as one step
ReserveCall(t) ==
    /\ threads[t].pc = "reserve_read"
    /\ LET reserved == ReserveCourseSlot(courses, threads[t].course_code)
       IN  /\ courses' = reserved.storage
           /\ IF reserved.ok
              THEN Goto(t, "find_active")
              ELSE Done(t, 409, "NoSeatsAvailable")
    /\ UNCHANGED <<students, enrollments, clock, resp, prev, body, relisted,
                 courses_service>>

\* enrollments_storage.create_enrollment(student_id, course_code), as one step
CreateCall(t) ==
    /\ threads[t].pc = "find_active"
    /\ LET created == CreateEnrollment(enrollments, threads[t].student_id,
                                       threads[t].course_code, clock)
       IN  IF created.raised
           THEN /\ Goto(t, "release_read")
                /\ UNCHANGED <<enrollments, clock>>
           ELSE /\ enrollments' = created.storage
                /\ clock' = clock + 2
                /\ threads' = [threads EXCEPT ![t].pc = "done",
                                              ![t].item_id = created.id,
                                              ![t].status = 201]
    /\ UNCHANGED <<students, courses, resp, prev, body, relisted,
                 courses_service>>

\* except ValueError: release_course_slot(course_code), as one step; then 409
ReleaseCall(t) ==
    /\ threads[t].pc = "release_read"
    /\ courses' = ReleaseCourseSlot(courses, threads[t].course_code).storage
    /\ Done(t, 409, "DuplicateEnrollment")
    /\ UNCHANGED <<students, enrollments, clock, resp, prev, body, relisted,
                 courses_service>>

\* cancel_enrollment(enrollment_id)
BeginCancel(t) ==
    /\ threads[t].pc = "idle"
    /\ clock < MaxClock
    /\ \E enrollment_id \in EnrollmentInputs :
          threads' = [threads EXCEPT ![t].pc = "cancel_get", ![t].op = "cancel",
                                     ![t].enrollment_id = enrollment_id]
    /\ UNCHANGED <<students, courses, enrollments, clock, resp, prev, body, relisted,
                 courses_service>>

\* get_by_id, `if not enrollment`, `if enrollment['status'] == 'CANCELLED'`
CancelGet(t) ==
    /\ threads[t].pc = "cancel_get"
    /\ LET k == GetById(enrollments, threads[t].enrollment_id)
       IN  IF k = NoItem
           THEN Done(t, 404, "NotFound")
           ELSE IF enrollments.data[k].status = "CANCELLED"
           THEN Done(t, 409, "AlreadyCancelled")
           ELSE threads' = [threads EXCEPT
                               ![t].pc = "cancel_release",
                               ![t].student_id = enrollments.data[k].student_id,
                               ![t].course_code = enrollments.data[k].course_code]
    /\ UNCHANGED <<students, courses, enrollments, clock, resp, prev, body, relisted,
                 courses_service>>

\* release_course_slot(enrollment['course_code']), whose result is not read
CancelRelease(t) ==
    /\ threads[t].pc = "cancel_release"
    /\ courses' = ReleaseCourseSlot(courses, threads[t].course_code).storage
    /\ Goto(t, "cancel_store")
    /\ UNCHANGED <<students, enrollments, clock, resp, prev, body, relisted,
                 courses_service>>

\* enrollments_storage.cancel_enrollment(enrollment_id), as one step: 200 when
\* it returns True, 500 when it returns False
CancelStore(t) ==
    /\ threads[t].pc = "cancel_store"
    /\ LET cancelled == StorageCancelEnrollment(enrollments,
                                                threads[t].enrollment_id, clock)
       IN  /\ enrollments' = cancelled.storage
           /\ IF cancelled.ok
              THEN clock' = clock + 1 /\ Done(t, 200, "none")
              ELSE UNCHANGED clock /\ Done(t, 500, "InternalError")
    /\ UNCHANGED <<students, courses, resp, prev, body, relisted,
                 courses_service>>

NextCalls ==
    \E t \in Threads :
        \/ BeginEnroll(t)
        \/ EnrollVerify(t)
        \/ ReserveCall(t)
        \/ CreateCall(t)
        \/ ReleaseCall(t)
        \/ BeginCancel(t)
        \/ CancelGet(t)
        \/ CancelRelease(t)
        \/ CancelStore(t)

SpecCalls == Init /\ [][NextCalls]_vars

(***************************************************************************)
(* SpecRecalc: a thread serves an enroll or a list_courses request, whose  *)
(* recalculate_course_slots counts first and writes the courses after      *)
(***************************************************************************)
BeginList(t) ==
    /\ threads[t].pc = "idle"
    /\ clock < MaxClock
    /\ threads' = [threads EXCEPT ![t].pc = "count", ![t].op = "list_courses"]
    /\ UNCHANGED <<students, courses, enrollments, clock, resp, prev, body, relisted,
                 courses_service>>

\* active_enrollments and enrollment_counts, from the records stored so far
CountActive(t) ==
    /\ threads[t].pc = "count"
    /\ threads' =
          [threads EXCEPT
              ![t].pc = "write",
              ![t].course = Min(DOMAIN courses.data),
              ![t].enrollment_counts =
                  [k \in DOMAIN courses.data |->
                      EnrollmentCount(enrollments, courses.data[k].code)]]
    /\ UNCHANGED <<students, courses, enrollments, clock, resp, prev, body, relisted,
                 courses_service>>

\* for course in all_courses: course['available_slots'] = max(0, ...), one
\* course per step; 200 after the last one
WriteSlots(t) ==
    /\ threads[t].pc = "write"
    /\ LET k == threads[t].course
       IN  /\ courses' =
                [courses EXCEPT !.data[k].available_slots =
                    Max0(courses.data[k].total_slots
                           - threads[t].enrollment_counts[k])]
           /\ IF k + 1 \in DOMAIN courses.data
              THEN threads' = [threads EXCEPT ![t].course = k + 1]
              ELSE Done(t, 200, "none")
    /\ UNCHANGED <<students, enrollments, clock, resp, prev, body, relisted,
                 courses_service>>

NextRecalc ==
    \E t \in Threads :
        \/ BeginEnroll(t)
        \/ EnrollVerify(t)
        \/ ReserveRead(t)
        \/ ReserveWrite(t)
        \/ ReserveRefused(t)
        \/ FindActive(t)
        \/ CreateId(t)
        \/ CreateStore(t)
        \/ NextIdRead(t)
        \/ NextIdWrite(t)
        \/ ReleaseRead(t)
        \/ ReleaseWrite(t)
        \/ BeginList(t)
        \/ CountActive(t)
        \/ WriteSlots(t)

SpecRecalc == Init /\ [][NextRecalc]_vars

(***************************************************************************)
(* Properties                                                              *)
(***************************************************************************)
CourseKeys == DOMAIN courses.data

\* the ACTIVE enrollments of a pair, and of a course, in an enrollment storage
ActiveOfPair(es, student_id, course_code) ==
    {k \in DOMAIN es.data : /\ es.data[k].student_id = student_id
                            /\ es.data[k].course_code = course_code
                            /\ es.data[k].status = "ACTIVE"}

ActiveOfCourse(es, course_code) ==
    {k \in DOMAIN es.data : /\ es.data[k].course_code = course_code
                            /\ es.data[k].status = "ACTIVE"}

CodeKnown(cs, course_code) == \E k \in DOMAIN cs.data : cs.data[k].code = course_code

\* the course of a code, in a course storage that has it
CourseOf(cs, course_code) ==
    cs.data[CHOOSE k \in DOMAIN cs.data : cs.data[k].code = course_code]

\* C1: in every state reached by enroll, cancel and recalculate calls, every
\* course has 0 <= available_slots <= total_slots.
C1_SlotsWithinCapacity ==
    \A k \in CourseKeys :
        /\ 0 <= courses.data[k].available_slots
        /\ courses.data[k].available_slots <= courses.data[k].total_slots

\* a refused reservation on a full course, while another course has every
\* seat free again
C1_Witness ==
    /\ resp.op = "enroll" /\ resp.error = "NoSeatsAvailable"
    /\ CourseOf(courses, resp.course_code).available_slots = 0
    /\ \E k \in CourseKeys :
          /\ courses.data[k].total_slots > 1
          /\ courses.data[k].available_slots = courses.data[k].total_slots

\* C2: in every state reached by enroll, cancel and recalculate calls, each
\* run to completion, no course has more ACTIVE enrollments than total_slots.
C2_NeverOverEnrolled ==
    \A k \in CourseKeys :
        Cardinality(ActiveOfCourse(enrollments, courses.data[k].code))
            <= courses.data[k].total_slots

\* a course of more than one seat filled to capacity, just recalculated
C2_Witness ==
    /\ resp.op = "list_courses"
    /\ \E k \in CourseKeys :
          /\ courses.data[k].total_slots > 1
          /\ Cardinality(ActiveOfCourse(enrollments, courses.data[k].code))
                = courses.data[k].total_slots

\* C3: in every state reached by enroll and cancel calls, each run to
\* completion, a (student_id, course_code) pair has at most one ACTIVE
\* enrollment.
C3_OneActivePerPair ==
    \A k1, k2 \in DOMAIN enrollments.data :
        ( /\ enrollments.data[k1].status = "ACTIVE"
          /\ enrollments.data[k2].status = "ACTIVE"
          /\ enrollments.data[k1].student_id = enrollments.data[k2].student_id
          /\ enrollments.data[k1].course_code = enrollments.data[k2].course_code )
        => k1 = k2

\* an enroll refused as a duplicate of an enrollment that an earlier enroll
\* call created
C3_Witness ==
    /\ resp.op = "enroll" /\ resp.error = "DuplicateEnrollment"
    /\ \E k \in ActiveOfPair(enrollments, resp.student_id, resp.course_code) :
          k > Len(SampleEnrollments)

\* every thread has served an enroll request of an existing student for
\* course_code, having had no ACTIVE enrollment in it when the threads started
AllEnrolledIn(course_code) ==
    \A t \in Threads :
        /\ threads[t].pc = "done"
        /\ threads[t].op = "enroll"
        /\ threads[t].course_code = course_code
        /\ threads[t].student_id \in DOMAIN students.data
        /\ \A i \in 1..Len(SampleEnrollments) :
              SampleEnrollments[i] # [student_id |-> threads[t].student_id,
                                      course_code |-> course_code]

Succeeded == {t \in Threads : threads[t].status = 201}

\* C4: concurrent enroll calls of distinct students for a course with exactly
\* one remaining seat (prev: the courses when the threads started) end with
\* exactly one success, NoSeatsAvailable for the others, and available_slots 0.
C4_LastSeatOneSuccess ==
    \A k \in CourseKeys :
        ( /\ AllEnrolledIn(courses.data[k].code)
          /\ \A t1, t2 \in Threads :
                threads[t1].student_id = threads[t2].student_id => t1 = t2
          /\ prev.data[k].available_slots = 1 )
        => /\ Cardinality(Succeeded) = 1
           /\ \A t \in Threads \ Succeeded :
                 threads[t].status = 409 /\ threads[t].error = "NoSeatsAvailable"
           /\ courses.data[k].available_slots = 0

\* C5: two concurrent enroll calls of the same student for the same course,
\* which had at least 2 available seats, end with one success and one
\* DuplicateEnrollment, one ACTIVE record of the pair and one seat consumed.
C5_SamePairOneSuccess ==
    \A k \in CourseKeys :
        ( /\ AllEnrolledIn(courses.data[k].code)
          /\ \A t1, t2 \in Threads :
                threads[t1].student_id = threads[t2].student_id
          /\ prev.data[k].available_slots >= 2 )
        => /\ Cardinality(Succeeded) = 1
           /\ \A t \in Threads \ Succeeded :
                 threads[t].status = 409 /\ threads[t].error = "DuplicateEnrollment"
           /\ \A t \in Threads :
                 Cardinality(ActiveOfPair(enrollments, threads[t].student_id,
                                          courses.data[k].code)) = 1
           /\ courses.data[k].available_slots = prev.data[k].available_slots - 1

\* the step is an enroll call for this student and this (upper-case) code
EnrollStep(student_id, course_code) ==
    /\ resp'.op = "enroll"
    /\ resp'.student_id = student_id
    /\ resp'.course_code = course_code

\* C6: when enroll(s, c) has succeeded and the next call cancels the id it
\* returned, the cancel succeeds, available_slots(c) is what it was before the
\* enroll (prev: the courses before the last call) and (s, c) has no ACTIVE
\* enrollment.
C6_EnrollCancelRoundTrip ==
    [][ ( /\ resp.op = "enroll" /\ resp.status = 201
          /\ resp'.op = "cancel" /\ resp'.enrollment_id = resp.enrollment_id )
        => /\ resp'.status = 200
           /\ CourseOf(courses', resp.course_code).available_slots
                 = CourseOf(prev, resp.course_code).available_slots
           /\ ActiveOfPair(enrollments', resp.student_id, resp.course_code) = {}
      ]_vars

\* an enrollment created by an enroll call and cancelled at the very next
\* reading of the clock, its seat given back
C6_Witness ==
    /\ resp.op = "cancel" /\ resp.status = 200
    /\ resp.enrollment_id > Len(SampleEnrollments)
    /\ enrollments.data[resp.enrollment_id].cancellation_date
          = enrollments.data[resp.enrollment_id].created_at + 1
    /\ CourseOf(courses, resp.course_code).available_slots
          = CourseOf(prev, resp.course_code).available_slots + 1

\* C7 as stated: when enroll(s, c) has succeeded and the next call is
\* enroll(s, c) again, the second call fails with DuplicateEnrollment and
\* leaves available_slots as the first call left it.
C7_SecondEnrollIsDuplicate ==
    [][ ( /\ resp.op = "enroll" /\ resp.status = 201
          /\ EnrollStep(resp.student_id, resp.course_code) )
        => /\ resp'.status = 409 /\ resp'.error = "DuplicateEnrollment"
           /\ courses' = courses
      ]_vars

\* C7 as amended: the second call fails with 409, as DuplicateEnrollment when
\* the first call left a seat free and as NoSeatsAvailable when it took the
\* last one; either way the seat counters and the enrollments are as the
\* first call left them.
C7_SecondEnrollRefused ==
    [][ ( /\ resp.op = "enroll" /\ resp.status = 201
          /\ EnrollStep(resp.student_id, resp.course_code) )
        => /\ resp'.status = 409
           /\ resp'.error =
                 IF CourseOf(courses, resp.course_code).available_slots > 0
                 THEN "DuplicateEnrollment" ELSE "NoSeatsAvailable"
           /\ courses' = courses
           /\ enrollments' = enrollments
      ]_vars

\* a second enroll refused as a duplicate of the latest enrollment, which an
\* enroll call created, the seat counters left as they were
C7_Witness ==
    /\ resp.op = "enroll" /\ resp.error = "DuplicateEnrollment"
    /\ enrollments.next_id - 1 > Len(SampleEnrollments)
    /\ enrollments.next_id - 1
          \in ActiveOfPair(enrollments, resp.student_id, resp.course_code)
    /\ prev = courses

\* C8: enroll of an existing student on an existing course whose
\* available_slots is 0 fails with NoSeatsAvailable and leaves the
\* enrollments (records and id counter), the courses and the clock unchanged.
C8_FullCourseRefused ==
    [][ \A student_id \in DOMAIN students.data, k \in CourseKeys :
          ( /\ EnrollStep(student_id, courses.data[k].code)
            /\ courses.data[k].available_slots = 0 )
          => /\ resp'.status = 409 /\ resp'.error = "NoSeatsAvailable"
             /\ enrollments' = enrollments
             /\ courses' = courses
             /\ clock' = clock
      ]_vars

\* an enroll of a student without an ACTIVE enrollment in the course, refused
\* because the course is full
C8_Witness ==
    /\ resp.op = "enroll" /\ resp.error = "NoSeatsAvailable"
    /\ CourseOf(courses, resp.course_code).available_slots = 0
    /\ ActiveOfPair(enrollments, resp.student_id, resp.course_code) = {}
    /\ prev = courses

\* the CANCELLED enrollments of a pair
CancelledOfPair(es, student_id, course_code) ==
    {k \in DOMAIN es.data : /\ es.data[k].student_id = student_id
                            /\ es.data[k].course_code = course_code
                            /\ es.data[k].status = "CANCELLED"}

\* C9: enroll(s, c) when (s, c) has a CANCELLED enrollment and no ACTIVE one
\* and c has a free seat succeeds: it stores an ACTIVE record of (s, c) under
\* an id no stored record has, and every stored record, the CANCELLED ones
\* included, stays as it was.
C9_ReEnrollAfterCancel ==
    [][ \A student_id \in DOMAIN students.data, k \in CourseKeys :
          ( /\ EnrollStep(student_id, courses.data[k].code)
            /\ CancelledOfPair(enrollments, student_id, courses.data[k].code) # {}
            /\ ActiveOfPair(enrollments, student_id, courses.data[k].code) = {}
            /\ courses.data[k].available_slots > 0 )
          => /\ resp'.status = 201
             /\ resp'.enrollment_id \notin DOMAIN enrollments.data
             /\ ActiveOfPair(enrollments', student_id, courses.data[k].code)
                   = {resp'.enrollment_id}
             /\ enrollments'.data[resp'.enrollment_id].id = resp'.enrollment_id
             /\ \A e \in DOMAIN enrollments.data :
                   /\ e \in DOMAIN enrollments'.data
                   /\ enrollments'.data[e] = enrollments.data[e]
      ]_vars

\* a successful enroll of a pair that has an older, CANCELLED enrollment
C9_Witness ==
    /\ resp.op = "enroll" /\ resp.status = 201
    /\ enrollments.data[resp.enrollment_id].status = "ACTIVE"
    /\ \E e \in CancelledOfPair(enrollments, resp.student_id, resp.course_code) :
          e < resp.enrollment_id

\* C10: cancel of an enrollment that is CANCELLED fails with AlreadyCancelled
\* (409) and leaves the courses, the enrollments (status and
\* cancellation_date included) and the clock unchanged.
C10_CancelTwiceRefused ==
    [][ \A e \in DOMAIN enrollments.data :
          ( /\ resp'.op = "cancel" /\ resp'.enrollment_id = e
            /\ enrollments.data[e].status = "CANCELLED" )
          => /\ resp'.status = 409 /\ resp'.error = "AlreadyCancelled"
             /\ courses' = courses
             /\ enrollments' = enrollments
             /\ clock' = clock
      ]_vars

\* a cancel refused as already cancelled, on a course that has a seat taken
\* (a release would have been accepted) and at a later time than the first
\* cancel
C10_Witness ==
    /\ resp.op = "cancel" /\ resp.error = "AlreadyCancelled"
    /\ LET e == enrollments.data[resp.enrollment_id]
       IN  /\ e.status = "CANCELLED"
           /\ e.cancellation_date < clock - 1
           /\ CourseOf(courses, e.course_code).available_slots
                 < CourseOf(courses, e.course_code).total_slots

(***************************************************************************)
(* The enrollment records under every operation, listings included         *)
(***************************************************************************)
ListingOps == {"student_enrollments", "all_enrollments", "course_enrollments"}

\* C11: every enrollment record is created with status ACTIVE, the only
\* change of status any operation makes is ACTIVE -> CANCELLED, and a
\* CANCELLED record keeps its status under every later operation (enroll,
\* cancel, recalculate, the listings).
C11_StatusOneWay ==
    [][ /\ \A k \in DOMAIN enrollments.data :
              /\ k \in DOMAIN enrollments'.data
              /\ enrollments'.data[k].status # enrollments.data[k].status
                    => /\ enrollments.data[k].status = "ACTIVE"
                       /\ enrollments'.data[k].status = "CANCELLED"
        /\ \A k \in DOMAIN enrollments'.data \ DOMAIN enrollments.data :
              enrollments'.data[k].status = "ACTIVE"
      ]_vars

\* a successful enroll of a pair that has a CANCELLED record: the new record
\* is ACTIVE and the cancelled one, listed before, is still CANCELLED
C11_Witness ==
    /\ resp.op = "enroll" /\ resp.status = 201
    /\ enrollments.data[resp.enrollment_id].status = "ACTIVE"
    /\ \E k \in DOMAIN enrollments.data :
          /\ k # resp.enrollment_id
          /\ enrollments.data[k].student_id = resp.student_id
          /\ enrollments.data[k].course_code = resp.course_code
          /\ enrollments.data[k].status = "CANCELLED"
          /\ enrollments.data[k].student # NoItem

\* C16: the listings by student, by course and of all enrollments are
\* read-only joins: the enrollment collection holds the same records, with the
\* same fields and values, after the call as before it.
C16_ListingsReadOnly ==
    [][ resp'.op \in ListingOps => enrollments' = enrollments ]_vars

\* the pairs (student id, course code) with no ACTIVE enrollment and a course
\* that has a free seat
OpenPairs(ss, cs, es) ==
    {<<p[1], cs.data[p[2]].code>> :
        p \in {q \in (DOMAIN ss.data) \X (DOMAIN cs.data) :
                  /\ ActiveOfPair(es, q[1], cs.data[q[2]].code) = {}
                  /\ cs.data[q[2]].available_slots > 0}}

\* C17: available-combinations returns exactly the (student, course) pairs
\* with no ACTIVE enrollment of the pair and available_slots > 0 for the
\* course: each such pair is listed once, no other pair is listed, and the
\* students, courses, enrollments and clock are unchanged by the call.
C17_CombinationsExact ==
    [][ resp'.op = "available_combinations"
        => /\ {<<body'[i].student_id, body'[i].course_code>> :
                   i \in 1..Len(body')} = OpenPairs(students, courses, enrollments)
           /\ Len(body') = Cardinality(OpenPairs(students, courses, enrollments))
           /\ students' = students
           /\ courses' = courses
           /\ enrollments' = enrollments
           /\ clock' = clock
      ]_vars

\* a response that lists a pair whose only record is CANCELLED and leaves out
\* every pair of a full course
C17_Witness ==
    /\ resp.op = "available_combinations"
    /\ \E i \in 1..Len(body) :
          CancelledOfPair(enrollments, body[i].student_id,
                          body[i].course_code) # {}
    /\ \E c \in CourseKeys : courses.data[c].available_slots = 0

(***************************************************************************)
(* The seat ledger with the endpoints of courses_service.py                *)
(***************************************************************************)
\* C12: after list_courses (recalculate) returns, every course has
\* available_slots = max(0, total_slots - number of ACTIVE enrollments of its
\* code), whatever the counters were before the call.
C12_RecalculateExact ==
    [][ resp'.op = "list_courses"
        => \A k \in DOMAIN courses'.data :
              LET free == courses'.data[k].total_slots
                            - Cardinality(ActiveOfCourse(enrollments',
                                                         courses'.data[k].code))
              IN  courses'.data[k].available_slots = IF free < 0 THEN 0 ELSE free
      ]_vars

\* a recalculation that changed the counters, on a state where a course has
\* more ACTIVE enrollments than seats (the clamp)
C12_Witness ==
    /\ resp.op = "list_courses"
    /\ prev # courses
    /\ \E k \in CourseKeys :
          /\ Cardinality(ActiveOfCourse(enrollments, courses.data[k].code))
                > courses.data[k].total_slots
          /\ courses.data[k].available_slots = 0

\* C13: list_courses (recalculate) right after list_courses changes
\* nothing: the seat counters, the enrollments, the students and the clock are
\* those the first call left.
C13_RecalculateIdempotent ==
    [][ (resp.op = "list_courses" /\ resp'.op = "list_courses")
        => /\ courses' = courses
           /\ enrollments' = enrollments
           /\ students' = students
           /\ clock' = clock
      ]_vars

\* two recalculations in a row on a state where the counters cannot equal
\* capacity minus enrollments: a course with more ACTIVE enrollments than seats
C13_Witness ==
    /\ relisted
    /\ resp.op = "list_courses"
    /\ \E k \in CourseKeys :
          Cardinality(ActiveOfCourse(enrollments, courses.data[k].code))
             > courses.data[k].total_slots

SeatOps == {"reserve_slot", "release_slot"}

\* C14: the adjustment of a course's counter by -1 (reserve-slot) or +1
\* (release-slot) succeeds exactly when the course exists and
\* 0 <= available_slots + delta <= total_slots, and then available_slots
\* changes by exactly delta; otherwise it is refused and the courses are
\* unchanged. The enrollments are unchanged in both cases.
C14_AdjustContract ==
    [][ resp'.op \in SeatOps
        => LET delta == IF resp'.op = "reserve_slot" THEN -1 ELSE 1
               code == resp'.course_code
               fits == /\ CodeKnown(courses, code)
                       /\ 0 <= CourseOf(courses, code).available_slots + delta
                       /\ CourseOf(courses, code).available_slots + delta
                             <= CourseOf(courses, code).total_slots
           IN  /\ resp'.status \in {200, 409}
               /\ (resp'.status = 200) <=> fits
               /\ fits => courses' =
                             [courses EXCEPT
                                !.data[CHOOSE k \in DOMAIN courses.data :
                                          courses.data[k].code = code]
                                      .available_slots = @ + delta]
               /\ ~fits => courses' = courses
               /\ enrollments' = enrollments
      ]_vars

\* a release refused on a course that exists, because every seat is already
\* available, while an ACTIVE enrollment of the course exists
C14_Witness ==
    /\ resp.op = "release_slot" /\ resp.status = 409
    /\ CodeKnown(courses, resp.course_code)
    /\ CourseOf(courses, resp.course_code).available_slots
          = CourseOf(courses, resp.course_code).total_slots
    /\ ActiveOfCourse(enrollments, resp.course_code) # {}
    /\ prev = courses

\* C15: whenever cancel reports success, the available_slots of the
\* enrollment's course is exactly one higher than before the call and the
\* record is CANCELLED with a cancellation date (so cancel never reports
\* success when the release of the seat was refused).
C15_CancelSuccessBothEffects ==
    [][ (resp'.op = "cancel" /\ resp'.status = 200)
        => LET e == resp'.enrollment_id
               code == enrollments.data[e].course_code
           IN  /\ CourseOf(courses', code).available_slots
                     = CourseOf(courses, code).available_slots + 1
               /\ enrollments'.data[e].status = "CANCELLED"
               /\ enrollments'.data[e].cancellation_date # NoDate
      ]_vars

(***************************************************************************)
(* The directories of students and courses                                 *)
(***************************************************************************)
UniqueField(st, field) ==
    \A j, k \in DOMAIN st.data :
        st.data[j][field] = st.data[k][field] => j = k

\* C18: a creation of a student whose identification, or of a course whose
\* code, is already in the store raises the duplicate error (409 from
\* register_student) and leaves the store and its id counter unchanged; in
\* every state no two students share an identification and no two courses
\* share a code.
C18_DirectoryKeysUnique ==
    [][ /\ (resp'.op = "register_student" /\ resp'.status # 400
            /\ \E k \in DOMAIN students.data :
                  students.data[k].identification = body'[1].identification)
           => /\ resp'.status = 409 /\ resp'.error = "ValueError"
              /\ students' = students
        /\ (resp'.op = "create_course"
            /\ \E k \in DOMAIN courses.data :
                  courses.data[k].code = body'[1].code)
           => /\ resp'.error = "ValueError"
              /\ courses' = courses
        /\ UniqueField(students, "identification")
        /\ UniqueField(students', "identification")
        /\ UniqueField(courses, "code")
        /\ UniqueField(courses', "code")
      ]_vars

\* a registration refused as a duplicate of an identification that was
\* itself registered by a request, the request's text differing from the
\* stored identification by white space, with a course created meanwhile
C18_Witness ==
    /\ resp.op = "register_student" /\ resp.status = 409
    /\ body[1].raw # body[1].identification
    /\ \E k \in DOMAIN students.data :
          /\ k > NumStudents
          /\ students.data[k].identification = body[1].identification
    /\ Cardinality(DOMAIN courses.data) > Len(SampleCourses)

(***************************************************************************)
(* Concurrent calls on different courses, and with the recalculation       *)
(***************************************************************************)
\* thread t has returned from an enroll of an existing student, not enrolled
\* by the sample data, in an existing course that had a free seat when the
\* threads started (prev)
EnrolledWithFreeSeat(t) ==
    /\ threads[t].pc = "done"
    /\ threads[t].op = "enroll"
    /\ threads[t].student_id \in DOMAIN students.data
    /\ CodeKnown(prev, threads[t].course_code)
    /\ CourseOf(prev, threads[t].course_code).available_slots > 0
    /\ \A i \in 1..Len(SampleEnrollments) :
          SampleEnrollments[i] # [student_id |-> threads[t].student_id,
                                  course_code |-> threads[t].course_code]

\* C19: two concurrent enroll calls on different courses, each course with a
\* free seat, end as the two calls made one after the other would: both
\* succeed, each course's available_slots is one lower, and each call's
\* record is in the collection, ACTIVE, under an id of its own, the id
\* counter having advanced by two.
C19_DifferentCoursesIndependent ==
    \A t1, t2 \in Threads :
        ( /\ t1 # t2
          /\ EnrolledWithFreeSeat(t1)
          /\ EnrolledWithFreeSeat(t2)
          /\ threads[t1].course_code # threads[t2].course_code )
        => /\ threads[t1].status = 201 /\ threads[t2].status = 201
           /\ \A t \in {t1, t2} :
                 /\ CourseOf(courses, threads[t].course_code).available_slots
                       = CourseOf(prev, threads[t].course_code).available_slots - 1
                 /\ \E k \in DOMAIN enrollments.data :
                       /\ enrollments.data[k].id = k
                       /\ enrollments.data[k].student_id = threads[t].student_id
                       /\ enrollments.data[k].course_code = threads[t].course_code
                       /\ enrollments.data[k].status = "ACTIVE"
           /\ enrollments.next_id = Len(SampleEnrollments) + 3

\* C20: when a list_courses call (the recalculation) and an enroll call run
\* concurrently, then once both have returned every course has
\* available_slots = total_slots - number of ACTIVE enrollments of its code.
C20_RecalculateSafeConcurrently ==
    ( /\ \A t \in Threads : threads[t].pc = "done"
      /\ \E t \in Threads : threads[t].op = "list_courses"
      /\ \E t \in Threads : threads[t].op = "enroll" )
    => \A k \in CourseKeys :
          courses.data[k].available_slots
             = courses.data[k].total_slots
                 - Cardinality(ActiveOfCourse(enrollments, courses.data[k].code))

(***************************************************************************)
(* Unknown entities                                                        *)
(***************************************************************************)
\* C21: enroll with a student id or a course code that does not exist fails
\* with 404 (StudentNotFound, or CourseNotFound for a known student), and
\* cancel with an unknown enrollment id fails with 404 NotFound; in each case
\* the courses (every seat counter) and the enrollment collection are
\* unchanged.
C21_UnknownEntityRejected ==
    [][ /\ ( /\ resp'.op = "enroll"
             /\ \/ resp'.student_id \notin DOMAIN students.data
                \/ ~CodeKnown(courses, resp'.course_code) )
           => /\ resp'.status = 404
              /\ resp'.error = IF resp'.student_id \notin DOMAIN students.data
                               THEN "StudentNotFound" ELSE "CourseNotFound"
              /\ courses' = courses
              /\ enrollments' = enrollments
        /\ ( /\ resp'.op = "cancel"
             /\ resp'.enrollment_id \notin DOMAIN enrollments.data )
           => /\ resp'.status = 404 /\ resp'.error = "NotFound"
              /\ courses' = courses
              /\ enrollments' = enrollments
      ]_vars

\* an enroll of a known student refused for its unknown course code, while a
\* course has a free seat and a cancellation has been made before
C21_Witness ==
    /\ resp.op = "enroll" /\ resp.status = 404 /\ resp.error = "CourseNotFound"
    /\ resp.student_id \in DOMAIN students.data
    /\ \E k \in CourseKeys : courses.data[k].available_slots > 0
    /\ \E e \in DOMAIN enrollments.data : enrollments.data[e].status = "CANCELLED"

(***************************************************************************)
(* The case of course codes                                                *)
(***************************************************************************)
\* C22: every stored course has the uppercase form of its code as its code,
\* and no two stored courses have codes that differ only in letter case.
C22_CodesUppercase ==
    /\ \A k \in CourseKeys : courses.data[k].code = Upper(courses.data[k].code)
    /\ \A j, k \in CourseKeys :
          Upper(courses.data[j].code) = Upper(courses.data[k].code) => j = k

(***************************************************************************)
(* The enrollment collection under concurrent enroll calls                 *)
(***************************************************************************)
\* C23: enrollment records are never removed or replaced: every stored record
\* has an id no other record has, and once the concurrent enroll calls have
\* returned the number of stored records is the number of the sample
\* enrollments plus the number of successful calls.
C23_RecordsNeverReplaced ==
    /\ \A j, k \in DOMAIN enrollments.data :
          enrollments.data[j].id = enrollments.data[k].id => j = k
    /\ (\A t \in Threads : threads[t].pc = "done")
          => Cardinality(DOMAIN enrollments.data)
                = Len(SampleEnrollments) + Cardinality(Succeeded)

(***************************************************************************)
(* Seat conservation                                                       *)
(***************************************************************************)
SeatsConserved(cs, es) ==
    \A k \in DOMAIN cs.data :
        cs.data[k].available_slots
           = cs.data[k].total_slots
               - Cardinality(ActiveOfCourse(es, cs.data[k].code))

\* C24: in the sample state and after any sequence of enroll and cancel
\* calls, each run to completion, every course has available_slots =
\* total_slots - number of its ACTIVE enrollments, and a recalculation
\* (list_courses) at any such point changes no course.
C24_SeatConservation ==
    [][ /\ SeatsConserved(courses, enrollments)
        /\ SeatsConserved(courses', enrollments')
        /\ resp'.op = "list_courses" => courses' = courses
      ]_vars

\* a recalculation that changed nothing, after a cancellation and a new
\* enrollment, with a course that is full and a course that is not
C24_Witness ==
    /\ resp.op = "list_courses"
    /\ prev = courses
    /\ \E e \in DOMAIN enrollments.data : enrollments.data[e].status = "CANCELLED"
    /\ \E e \in DOMAIN enrollments.data :
          e > Len(SampleEnrollments) /\ enrollments.data[e].status = "ACTIVE"
    /\ \E k \in CourseKeys : courses.data[k].available_slots = 0
    /\ \E k \in CourseKeys : courses.data[k].available_slots > 0

(***************************************************************************)
(* Concurrent cancel calls, and cancel beside enroll                       *)
(***************************************************************************)
\* C25: two concurrent cancel calls for the same enrollment, ACTIVE when they
\* start (prev: the courses at that time), end with one success (200) and
\* one AlreadyCancelled (409), never an internal error, and the course's
\* available_slots is one higher than before.
C25_ConcurrentCancelOnce ==
    \A e \in 1..Len(SampleEnrollments) :
        (\A t \in Threads : /\ threads[t].pc = "done"
                            /\ threads[t].op = "cancel"
                            /\ threads[t].enrollment_id = e)
        => /\ Cardinality({t \in Threads : threads[t].status = 200}) = 1
           /\ \A t \in Threads :
                 threads[t].status # 200
                    => threads[t].status = 409 /\ threads[t].error = "AlreadyCancelled"
           /\ CourseOf(courses, enrollments.data[e].course_code).available_slots
                 = CourseOf(prev, enrollments.data[e].course_code).available_slots + 1

\* C26: with every seat adjustment and every record write atomic, no
\* intermediate state of interleaved enroll and cancel calls has a course
\* with more ACTIVE enrollments than total_slots (a seat released by a cancel
\* in progress is not taken while the record being cancelled is ACTIVE).
C26_NoOverEnrollmentInterleaved ==
    ~ \E k \in CourseKeys :
          Cardinality({e \in DOMAIN enrollments.data :
                          /\ enrollments.data[e].course_code = courses.data[k].code
                          /\ enrollments.data[e].status = "ACTIVE"})
             > courses.data[k].total_slots

(***************************************************************************)
(* The seat endpoints and over-enrollment                                  *)
(***************************************************************************)
\* C27: after any sequence of enroll, cancel, reserve-slot, release-slot and
\* list_courses (recalculate) calls, each run to completion, every course has
\* at most total_slots ACTIVE enrollments.
C27_NoOverEnrollmentWithSeatEndpoints ==
    \A k \in CourseKeys :
        courses.data[k].total_slots
           - Cardinality(ActiveOfCourse(enrollments, courses.data[k].code)) >= 0

\* C28: with each service in a process of its own, after an enroll or cancel
\* has succeeded in the Enrollments service, the course listing of the Courses
\* service reports for every course available_slots = total_slots minus the
\* ACTIVE enrollments that the Enrollments service holds.
C28_ServicesAgreeOnSeats ==
    [][ (resp.op \in {"enroll", "cancel"} /\ resp.status \in {200, 201}
           /\ resp'.op = "list_courses")
        => \A i \in 1..Len(body') :
              body'[i].available_slots =
                 body'[i].total_slots
                    - Cardinality(ActiveOfCourse(enrollments, body'[i].code)) ]_vars

\* the records of es whose cancellation date is set are those with status
\* CANCELLED
DatedIffCancelled(es) ==
    \A e \in DOMAIN es.data :
        (es.data[e].cancellation_date # NoDate) <=> (es.data[e].status = "CANCELLED")

\* C29: between calls, an enrollment record has a cancellation_date if and
\* only if its status is CANCELLED, and no call changes the student_id, the
\* course_code or the enrollment_date of a record that exists.
C29_DatedIffCancelledAndIdentityKept ==
    [][ /\ DatedIffCancelled(enrollments)
        /\ DatedIffCancelled(enrollments')
        /\ \A e \in DOMAIN enrollments.data :
              /\ e \in DOMAIN enrollments'.data
              /\ enrollments'.data[e].student_id = enrollments.data[e].student_id
              /\ enrollments'.data[e].course_code = enrollments.data[e].course_code
              /\ enrollments'.data[e].enrollment_date
                    = enrollments.data[e].enrollment_date
      ]_vars

\* an enrollment after a cancellation and a listing: a CANCELLED record with
\* its date, which the listing joined with its student, and an ACTIVE record
\* created after the samples, without a date
C29_Witness ==
    /\ resp.op = "enroll"
    /\ resp.status = 201
    /\ \E e \in DOMAIN enrollments.data :
          /\ enrollments.data[e].status = "CANCELLED"
          /\ enrollments.data[e].cancellation_date # NoDate
          /\ enrollments.data[e].student # NoItem
    /\ \E e \in DOMAIN enrollments.data :
          /\ e > Len(SampleEnrollments)
          /\ enrollments.data[e].status = "ACTIVE"
          /\ enrollments.data[e].cancellation_date = NoDate

\* the courses of cs2 are those of cs1 with the same id, code and total_slots
SameCapacities(cs1, cs2) ==
    /\ DOMAIN cs2.data = DOMAIN cs1.data
    /\ cs2.next_id = cs1.next_id
    /\ \A k \in DOMAIN cs1.data :
          [cs2.data[k] EXCEPT !.available_slots = 0]
             = [cs1.data[k] EXCEPT !.available_slots = 0]

\* C30: an enroll or cancel call for course c changes no available_slots of
\* another course, no total_slots, and no enrollment record other than the
\* one it creates or cancels; list_courses (recalculate) changes nothing but
\* available_slots values: students, enrollment records and total_slots stay.
C30_FrameConditions ==
    [][ /\ resp'.op \in {"enroll", "cancel"} =>
              /\ SameCapacities(courses, courses')
              /\ \A k \in DOMAIN courses.data :
                    courses.data[k].code # resp'.course_code
                       => courses'.data[k] = courses.data[k]
              /\ students' = students
              /\ DOMAIN enrollments.data \subseteq DOMAIN enrollments'.data
              /\ \A e \in DOMAIN enrollments'.data :
                    e # resp'.enrollment_id
                       => /\ e \in DOMAIN enrollments.data
                          /\ enrollments'.data[e] = enrollments.data[e]
        /\ resp'.op = "list_courses" =>
              /\ SameCapacities(courses, courses')
              /\ students' = students
              /\ enrollments' = enrollments
      ]_vars

\* a course listing that changed the counter of a course after a direct
\* release, in a state reached by a successful enroll or a successful cancel
C30_Witness ==
    /\ resp.op = "list_courses"
    /\ \E k \in CourseKeys : prev.data[k].available_slots
                                # courses.data[k].available_slots
    /\ \E e \in DOMAIN enrollments.data :
          \/ e > Len(SampleEnrollments)
          \/ enrollments.data[e].status = "CANCELLED"

====
